---- MODULE Spec2Model ----
(***************************************************************************)
(* A model of modrinth/ariadne: the in-memory analytics buffer             *)
(* (AnalyticsQueue, in its two-map form of src/scheduled/analytics.rs and  *)
(* its three-map form of src/queue.rs), the flush job that src/main.rs     *)
(* registers with the scheduler, and the sink the flush writes to.         *)
(*                                                                         *)
(* Ingestion tasks run on several worker threads and the flush job on the  *)
(* scheduler's thread, so every DashMap call is one atomic step and the    *)
(* steps of different threads interleave freely.                           *)
(***************************************************************************)
EXTENDS Integers, FiniteSets, Sequences, TLC

\* ------------------------------------------------------------------ bounds
MaxAdds == 3         \* add calls begun in one behaviour
MaxSerialAdds == 4   \* the same, when no call overlaps another
MaxFlushes == 2      \* executions of the flush job in one behaviour
MaxTime == 6         \* ticks of the scheduler's clock in one behaviour
\* The intervals main.rs registers (300 s and 86400 s), in ticks of the clock.
FlushInterval == 2
MaxMindInterval == 3
MaxSystemAdds == 1   \* add calls begun in one behaviour of the whole system
MaxSystemTime == 3   \* ticks of the clock in one behaviour of the whole system
MaxObservations == 6 \* RateLimitQueue::add calls for one key in one window
MaxResets == 1       \* RateLimitQueue::index calls in one behaviour
MaxRequests == 6     \* requests the ingest handlers hand to the buffer in one behaviour
MaxEvents == 3       \* the same, when what the events hold is followed
MaxSmall == 80       \* the numbers from 0 up to it are put through base62
MaxRun == 12         \* the longest run of z at the head of a string to parse

\* ------------------------------------------------------------------ inputs
Threads == {"t1", "t2"}
ProjectIds == {42}
SitePaths == {"/mod/foo", "/mod/bar"}
DownloadPaths == {"/mod/foo"}
Amounts == {2}

\* PageViewKey (NumericKey in src/queue.rs): derive(Eq, PartialEq, Hash)
PageViewKey == [project_id : ProjectIds, site_path : SitePaths]
\* DownloadKey (NumericKey in src/queue.rs)
DownloadKey == [project_id : ProjectIds, site_path : DownloadPaths]
\* RevenueKey
RevenueKey == [project_id : ProjectIds]

Foo == [project_id |-> 42, site_path |-> "/mod/foo"]
Bar == [project_id |-> 42, site_path |-> "/mod/bar"]

Kinds == {"views", "downloads", "revenue"}
CounterKinds == {"views", "downloads"}
KeysOf(kind) ==
    CASE kind = "views" -> PageViewKey
      [] kind = "downloads" -> DownloadKey
      [] kind = "revenue" -> RevenueKey
\* The keys the ingest handlers build have the project id 0 when the
\* project is not resolved.
IngestKey == [project_id : ProjectIds \cup {0}, site_path : SitePaths]
Targets ==
    {x \in Kinds \X (IngestKey \cup RevenueKey) :
        x[2] \in KeysOf(x[1]) \/ (x[1] \in CounterKinds /\ x[2] \in IngestKey)}

\* ------------------------------------------------- rate limiter inputs
\* The ip strings requests come with, by what std::net's parser reads in
\* them: decimal numbers separated by dots, hexadecimal groups separated by
\* colons (written out in full), or anything else.
V4A == [form |-> "dotted", parts |-> <<1, 2, 3, 4>>]
V4B == [form |-> "dotted", parts |-> <<1, 2, 3, 5>>]
Loopback == [form |-> "dotted", parts |-> <<127, 0, 0, 1>>]
BadOctet == [form |-> "dotted", parts |-> <<1, 2, 3, 256>>]
Junk == [form |-> "other", parts |-> <<>>]
V6A == [form |-> "colons", parts |-> <<8193, 3512, 0, 1, 0, 0, 0, 1>>]
V6B == [form |-> "colons", parts |-> <<8193, 3512, 0, 1, 0, 0, 0, 2>>]
V6C == [form |-> "colons", parts |-> <<8193, 3512, 0, 2, 0, 0, 0, 1>>]
RawIps == {V4A, V4B, Loopback, BadOctet, Junk, V6A, V6B, V6C}
RlClients == [ip : RawIps, site_path : SitePaths]
\* Requests come from one client or from a pair of clients.
ClientSets == {{a, b} : a, b \in RlClients}
Pepper == "pepper"
\* if val.value() >= &5
Threshold == 5

\* ------------------------------------------------------- ingest inputs
\* Option<T>
None(filler) == [some |-> FALSE, val |-> filler]
Some(x) == [some |-> TRUE, val |-> x]
\* A header name is held as its text in lower case and the positions of its
\* capital letters: two names are one key of a HashMap<String, String> only
\* when both agree.
HeaderName(text, caps) == [text |-> text, caps |-> caps]
Lower(text) == HeaderName(text, {})
\* String::to_lowercase
to_lowercase(name) == [name EXCEPT !.caps = {}]
FILTERED_HEADERS ==
    {Lower(text) : text \in
        {"authorization", "cookie", "modrinth-admin", "user-agent",
         "cf-connecting-ip", "cf-ipcountry", "x-forwarded-for", "x-real-ip",
         "x-vercel-ip-city", "x-vercel-ip-timezone", "x-vercel-ip-longitude",
         "x-vercel-proxy-signature", "x-vercel-ip-country-region",
         "x-vercel-forwarded-for", "x-vercel-proxied-for",
         "x-vercel-proxy-signature-ts", "x-vercel-ip-latitude",
         "x-vercel-ip-country"}}
\* A header map, from names to values; a value is held as an ip string is
\* (Junk is a text that is no address).
NoHeaders == [n \in {} |-> Junk]
\* The headers of an HTTP request, as the http crate holds their names.
PlainHttp == (Lower("user-agent") :> Junk) @@ (Lower("accept") :> Junk)
BadProxyHttp ==
    (Lower("cf-connecting-ip") :> BadOctet) @@ (Lower("cookie") :> Junk)
      @@ (Lower("accept") :> Junk)
\* The headers a server-side caller sends in the body, spelled as it likes.
BodyCapitals ==
    (HeaderName("authorization", {1}) :> Junk) @@ (Lower("accept") :> Junk)
BodyLower ==
    (Lower("cookie") :> Junk) @@ (Lower("cf-connecting-ip") :> V6A)
      @@ (Lower("x-custom") :> Junk)
\* What maxmind.query returns for the address of a request.
Countries == {None(""), Some("US")}
\* No Download or PageView built yet.
NoEvent == [ip |-> <<>>, country |-> "", headers |-> NoHeaders]

VARIABLES
    impl,             \* which AnalyticsQueue is built: "scheduled" or "queue"
    views_queue,      \* DashMap<key, u32>, a partial map
    downloads_queue,  \* DashMap<key, u32>
    revenue_queue,    \* DashMap<RevenueKey, f32> (src/queue.rs only)
    task,             \* per thread: the add call in progress, if any
    ipc,              \* where the flush job's index call stands
    local,            \* index's locals: the three clones
    tx,               \* rows executed in the open transaction
    sink,             \* rows visible in the database
    added,            \* history: per target, the amount of the completed adds
    batches,          \* history: the batches of the finished index calls
    nadds,            \* add calls begun
    overlap,          \* which calls the environment lets overlap
    now,              \* the scheduler's clock
    wake,             \* per job: when its sleep ends
    running,          \* per job: executions in progress
    last_start,       \* history: per job, when its last execution began
    last_done,        \* history: per job, when its last execution ended (-1: none)
    last_result,      \* history: per job, what the body of its last execution got
    rl_queue,         \* RateLimitQueue.views_queue: DashMap<PageViewEntry, u32>
    rl_task,          \* per thread: the RateLimitQueue::add call in progress
    clients,          \* the (ip, site_path) pairs that requests come with
    rl_seen,          \* history: per client, its add calls completed in the window
    rl_admitted,      \* history: per client, those of them that returned true
    rl_prev,          \* history: the clients denied in the window before
    rl_resets,        \* RateLimitQueue::index calls made
    allowed_origins,  \* the CORS_ALLOWED_ORIGINS of the environment
    last_response,    \* history: the status the request taken last is answered with
    served,           \* history: per site path, the view requests without the
                      \* admin key that were handed to the buffer
    event,            \* history: the Download or PageView handed last to the buffer
    b62,              \* a number on its way through to_base62 and parse_base62,
                      \* or a string on its way through parse_base62
    check             \* a call of perform_analytics_checks: its arguments, how
                      \* far it is, what it returns

qvars == <<impl, views_queue, downloads_queue, revenue_queue, task, ipc, local,
           tx, sink, added, batches, nadds, overlap>>
svars == <<now, wake, running, last_start, last_done, last_result>>
rvars == <<rl_queue, rl_task, clients, rl_seen, rl_admitted, rl_prev, rl_resets>>
ivars == <<allowed_origins, last_response, served, event>>
pvars == <<b62, check>>
vars == <<qvars, svars, rvars, ivars, pvars>>

Jobs == {"maxmind", "flush"}
Interval(j) == IF j = "flush" THEN FlushInterval ELSE MaxMindInterval

\* ------------------------------------------------------------ partial maps
EmptyMap == [k \in {} |-> 0]
Has(m, k) == k \in DOMAIN m
Put(m, k, v) == [x \in DOMAIN m \cup {k} |-> IF x = k THEN v ELSE m[x]]
ValueOf(m, k) == IF Has(m, k) THEN m[k] ELSE 0

Queue(kind) ==
    CASE kind = "views" -> views_queue
      [] kind = "downloads" -> downloads_queue
      [] kind = "revenue" -> revenue_queue

SetQueue(kind, m) ==
    /\ views_queue' = IF kind = "views" THEN m ELSE views_queue
    /\ downloads_queue' = IF kind = "downloads" THEN m ELSE downloads_queue
    /\ revenue_queue' = IF kind = "revenue" THEN m ELSE revenue_queue

NoLocal == [views_queue |-> EmptyMap, downloads_queue |-> EmptyMap,
            revenue_queue |-> EmptyMap]
LocalOf(l, kind) ==
    CASE kind = "views" -> l.views_queue
      [] kind = "downloads" -> l.downloads_queue
      [] kind = "revenue" -> l.revenue_queue

Idle == [pc |-> "idle"]

\* AnalyticsQueue::new. The environment is fixed for a behaviour: with
\* "any" the add calls overlap each other and the rotation, as the worker
\* threads allow; with "rotation" one add call runs at a time, concurrently
\* with the flush job; with "none" no add call overlaps another call or the
\* rotation of an index call; "system" is "rotation" with the flush job run
\* by the scheduler, and "ingest" is "none" with the add calls made by the
\* handlers of src/routes/ingest.rs.
SchedulerInit ==
    /\ now = 0
    /\ wake = [j \in Jobs |-> 0]
    /\ running = [j \in Jobs |-> 0]
    /\ last_start = [j \in Jobs |-> -1]
    /\ last_done = [j \in Jobs |-> -1]
    /\ last_result = [j \in Jobs |-> "none"]

\* RateLimitQueue::new, for requests that come with the pairs cs.
RateLimitInit(cs) ==
    /\ rl_queue = EmptyMap
    /\ rl_task = [t \in Threads |-> Idle]
    /\ clients = cs
    /\ rl_seen = [c \in cs |-> 0]
    /\ rl_admitted = [c \in cs |-> 0]
    /\ rl_prev = {}
    /\ rl_resets = 0

InitQueue(o) ==
    /\ SchedulerInit
    /\ overlap = o
    /\ impl \in {"scheduled", "queue"}
    /\ views_queue = EmptyMap
    /\ downloads_queue = EmptyMap
    /\ revenue_queue = EmptyMap
    /\ task = [t \in Threads |-> Idle]
    /\ ipc = "idle"
    /\ local = NoLocal
    /\ tx = {}
    /\ sink = {}
    /\ added = [x \in Targets |-> 0]
    /\ batches = <<>>
    /\ nadds = 0

\* No request taken yet, in an environment with the origins ao allowed.
IngestInit(ao) ==
    /\ allowed_origins = ao
    /\ last_response = 0
    /\ served = [p \in SitePaths |-> 0]
    /\ event = NoEvent

\* No call of the base62 functions or of perform_analytics_checks is followed.
NoCall == [pc |-> "none"]

InitWith(o) ==
    /\ InitQueue(o)
    /\ RateLimitInit({})
    /\ IngestInit({})
    /\ b62 = NoCall /\ check = NoCall

Init == InitWith("any")
InitOneWriter == InitWith("rotation")
InitSerial == InitWith("none")
InitSched == InitWith("any") /\ impl = "scheduled"
InitSystem == InitWith("system") /\ impl = "scheduled"
InitRateLimit ==
    /\ InitQueue("none") /\ impl = "scheduled"
    /\ \E cs \in ClientSets : RateLimitInit(cs)
    /\ IngestInit({})
    /\ b62 = NoCall /\ check = NoCall
\* The requests of one client, or of two clients that share an entry, with
\* the add calls of the two threads overlapping.
RaceClientSets ==
    {{[ip |-> V4A, site_path |-> "/mod/foo"]},
     {[ip |-> V6A, site_path |-> "/mod/foo"], [ip |-> V6B, site_path |-> "/mod/foo"]}}
InitRateLimitRace ==
    /\ InitQueue("any") /\ impl = "scheduled"
    /\ \E cs \in RaceClientSets : RateLimitInit(cs)
    /\ IngestInit({})
    /\ b62 = NoCall /\ check = NoCall
InitIngest ==
    /\ InitQueue("ingest") /\ impl = "scheduled"
    /\ RateLimitInit({})
    /\ \E ao \in {{"https://modrinth.com"}, {"*"}} : IngestInit(ao)
    /\ b62 = NoCall /\ check = NoCall
InitEvent ==
    /\ InitQueue("event") /\ impl = "scheduled"
    /\ RateLimitInit({})
    /\ IngestInit({"https://modrinth.com"})
    /\ b62 = NoCall /\ check = NoCall

\* ------------------------------------------------------------------- index
\* The index call is between its entry and its last clear.
InRotation ==
    ipc \in {"clone_views", "clear_views", "clone_downloads", "clear_downloads",
             "clone_revenue", "clear_revenue"}

\* The rows the loops of index insert, tagged with the batch they belong to.
RowsOf(b, l, kind) ==
    {[batch |-> b, kind |-> kind, key |-> k, value |-> LocalOf(l, kind)[k]] :
        k \in DOMAIN LocalOf(l, kind)}
BatchRows(b, l) == RowsOf(b, l, "views") \cup RowsOf(b, l, "downloads")
                     \cup RowsOf(b, l, "revenue")
CurrentBatch == Len(batches) + 1

\* Sum of a key's counts over the recorded batches.
RECURSIVE SumBatches(_, _, _)
SumBatches(bs, kind, k) ==
    IF bs = <<>> THEN 0
    ELSE ValueOf(LocalOf(Head(bs).maps, kind), k) + SumBatches(Tail(bs), kind, k)

\* ----------------------------------------------------------------- DashMap
\* Mutants of the map operations: an increment that is not stored, an insert
\* that stores 0, a clear that leaves the entries.
Increment_Lost(m, k, amt) == m
Insert_Zero(m, k, v) == Put(m, k, 0)
Clear_NoOp(m) == m

\* *val += amount under the shard's write lock (get_mut returned Some)
Increment(m, k, amt) == Put(m, k, m[k] + amt)
\* DashMap::insert: stores the value, replacing the one present
Insert(m, k, v) == Put(m, k, v)
\* DashMap::clone
Clone(m) == m
\* DashMap::clear
Clear(m) == EmptyMap

\* --------------------------------------------------------------------- add
\* The add calls the environment makes in one behaviour.
AddBudget ==
    CASE overlap = "none" -> MaxSerialAdds
      [] overlap = "system" -> MaxSystemAdds
      [] overlap = "ingest" -> MaxRequests
      [] overlap = "event" -> MaxEvents
      [] OTHER -> MaxAdds

\* The get_mut of an add call: increments in place when the key is present,
\* and otherwise returns None (the lock released) with the insert still to do.
get_mut(t, kind, key, amt) ==
    /\ task[t].pc = "idle"
    /\ nadds < AddBudget
    /\ nadds' = nadds + 1
    /\ overlap # "any" => \A u \in Threads : task[u].pc = "idle"
    /\ overlap \in {"none", "ingest", "event"} => ~InRotation
    /\ IF Has(Queue(kind), key)
         THEN /\ SetQueue(kind, Increment(Queue(kind), key, amt))
              /\ added' = [added EXCEPT ![<<kind, key>>] = @ + amt]
              /\ task' = task
         ELSE /\ task' = [task EXCEPT ![t] = [pc |-> "insert", kind |-> kind,
                                               key |-> key, amt |-> amt]]
              /\ UNCHANGED <<views_queue, downloads_queue, revenue_queue, added>>
    /\ UNCHANGED <<impl, ipc, local, tx, sink, batches, overlap>>
    /\ UNCHANGED svars

add_view(t, key) ==
    /\ get_mut(t, "views", key, 1)
    /\ UNCHANGED <<rvars, ivars, pvars>>

add_download(t, key) ==
    /\ get_mut(t, "downloads", key, 1)
    /\ UNCHANGED <<rvars, ivars, pvars>>

add_revenue(t, key, revenue) ==
    /\ impl = "queue"
    /\ get_mut(t, "revenue", key, revenue)
    /\ UNCHANGED <<rvars, ivars, pvars>>

\* The else branch of an add call: insert(key, 1) or insert(key, revenue).
insert(t) ==
    /\ task[t].pc = "insert"
    /\ SetQueue(task[t].kind, Insert(Queue(task[t].kind), task[t].key, task[t].amt))
    /\ added' = [added EXCEPT ![<<task[t].kind, task[t].key>>] = @ + task[t].amt]
    /\ task' = [task EXCEPT ![t] = Idle]
    /\ UNCHANGED <<impl, ipc, local, tx, sink, batches, nadds, overlap>>
    /\ UNCHANGED <<svars, rvars, ivars, pvars>>

\* ------------------------------------------------------------------- index
\* Mutant: index without its self.views_queue.clear().
IndexOrder_NoClearViews ==
    <<"clone_views", "clone_downloads", "clear_downloads", "check">>

\* The statements of index before its emptiness test, in source order.
IndexOrderScheduled ==
    <<"clone_views", "clear_views", "clone_downloads", "clear_downloads", "check">>
IndexOrderQueue ==
    <<"clone_views", "clear_downloads", "clone_downloads", "clear_views",
      "clone_revenue", "clear_revenue", "check">>
IndexOrder == IF impl = "scheduled" THEN IndexOrderScheduled ELSE IndexOrderQueue
NextPc(pc) ==
    LET i == CHOOSE j \in 1..Len(IndexOrder) : IndexOrder[j] = pc
    IN IndexOrder[i + 1]

\* The flush job's closure calls analytics_queue_ref.index(client_ref).
CallIndex ==
    /\ ipc = "idle"
    /\ Len(batches) < MaxFlushes
    /\ ipc' = "clone_views"
    /\ overlap = "none" => \A t \in Threads : task[t].pc = "idle"
    /\ UNCHANGED <<impl, views_queue, downloads_queue, revenue_queue, task, local,
                   tx, sink, added, batches, nadds, overlap>>

FlushJobStart ==
    /\ CallIndex
    /\ UNCHANGED <<svars, rvars, ivars, pvars>>

\* let <kind>_queue = self.<kind>_queue.clone();
IndexClone(kind) ==
    /\ ipc = "clone_" \o kind
    /\ local' = CASE kind = "views" -> [local EXCEPT !.views_queue = Clone(views_queue)]
                  [] kind = "downloads" ->
                         [local EXCEPT !.downloads_queue = Clone(downloads_queue)]
                  [] kind = "revenue" ->
                         [local EXCEPT !.revenue_queue = Clone(revenue_queue)]
    /\ ipc' = NextPc(ipc)
    /\ UNCHANGED <<impl, views_queue, downloads_queue, revenue_queue, task, tx, sink,
                   added, batches, nadds, overlap>>
    /\ UNCHANGED <<svars, rvars, ivars, pvars>>

\* self.<kind>_queue.clear();
IndexClear(kind) ==
    /\ ipc = "clear_" \o kind
    /\ SetQueue(kind, Clear(Queue(kind)))
    /\ ipc' = NextPc(ipc)
    /\ UNCHANGED <<impl, task, local, tx, sink, added, batches, nadds, overlap>>
    /\ UNCHANGED <<svars, rvars, ivars, pvars>>

LocalEmpty ==
    /\ local.views_queue = EmptyMap
    /\ local.downloads_queue = EmptyMap
    /\ local.revenue_queue = EmptyMap

Record(status) == Append(batches, [maps |-> local, status |-> status])

\* The emptiness test fails: index returns Ok(()) without a transaction.
IndexEmpty ==
    /\ ipc = "check"
    /\ LocalEmpty
    /\ ipc' = "ok"
    /\ batches' = Record("empty")
    /\ UNCHANGED <<impl, views_queue, downloads_queue, revenue_queue, task, local,
                   tx, sink, added, nadds, overlap>>
    /\ UNCHANGED <<svars, rvars, ivars, pvars>>

\* Mutant: the transaction is begun whatever the clones hold.
IndexBegin_Always ==
    /\ ipc = "check"
    /\ ipc' = "insert"
    /\ tx' = {}
    /\ UNCHANGED <<impl, views_queue, downloads_queue, revenue_queue, task, local,
                   sink, added, batches, nadds, overlap>>
    /\ UNCHANGED <<svars, rvars, ivars, pvars>>

\* pool.begin().await succeeds
IndexBegin ==
    /\ ipc = "check"
    /\ ~LocalEmpty
    /\ ipc' = "insert"
    /\ tx' = {}
    /\ UNCHANGED <<impl, views_queue, downloads_queue, revenue_queue, task, local,
                   sink, added, batches, nadds, overlap>>
    /\ UNCHANGED <<svars, rvars, ivars, pvars>>

\* The rows the three for loops have still to insert: the views first, then
\* the downloads, then the revenue; within one map in any order.
Remaining(kind) == RowsOf(CurrentBatch, local, kind) \ tx
NextRows ==
    IF Remaining("views") # {} THEN Remaining("views")
    ELSE IF Remaining("downloads") # {} THEN Remaining("downloads")
    ELSE Remaining("revenue")

\* Mutant: the insert is executed on the pool, outside the transaction.
IndexInsert_AutoCommit ==
    /\ ipc = "insert"
    /\ \E row \in NextRows : tx' = tx \cup {row} /\ sink' = sink \cup {row}
    /\ UNCHANGED <<impl, views_queue, downloads_queue, revenue_queue, task, ipc,
                   local, added, batches, nadds, overlap>>
    /\ UNCHANGED <<svars, rvars, ivars, pvars>>

\* One sqlx::query!(INSERT ...).execute(&mut *transaction).await succeeds.
IndexInsert ==
    /\ ipc = "insert"
    /\ \E row \in NextRows : tx' = tx \cup {row}
    /\ UNCHANGED <<impl, views_queue, downloads_queue, revenue_queue, task, ipc,
                   local, sink, added, batches, nadds, overlap>>
    /\ UNCHANGED <<svars, rvars, ivars, pvars>>

\* transaction.commit().await succeeds: the rows become visible together.
IndexCommit ==
    /\ ipc = "insert"
    /\ NextRows = {}
    /\ sink' = sink \cup tx
    /\ tx' = {}
    /\ ipc' = "ok"
    /\ batches' = Record("committed")
    /\ UNCHANGED <<impl, views_queue, downloads_queue, revenue_queue, task, local,
                   added, nadds, overlap>>
    /\ UNCHANGED <<svars, rvars, ivars, pvars>>

\* Mutant: on an error the batch is merged back into the buffer.
Merge(m, l) == [k \in DOMAIN m \cup DOMAIN l |-> ValueOf(m, k) + ValueOf(l, k)]
IndexFail_Requeue ==
    /\ \/ ipc = "check" /\ ~LocalEmpty
       \/ ipc = "insert"
    /\ tx' = {}
    /\ ipc' = "err"
    /\ batches' = Record("discarded")
    /\ views_queue' = Merge(views_queue, local.views_queue)
    /\ downloads_queue' = Merge(downloads_queue, local.downloads_queue)
    /\ revenue_queue' = Merge(revenue_queue, local.revenue_queue)
    /\ UNCHANGED <<impl, task, local, sink, added, nadds, overlap>>
    /\ UNCHANGED <<svars, rvars, ivars, pvars>>

\* begin, an insert or the commit returns Err: the ? returns it, and the
\* transaction is dropped, which rolls it back.
IndexFail ==
    /\ \/ ipc = "check" /\ ~LocalEmpty
       \/ ipc = "insert"
    /\ tx' = {}
    /\ ipc' = "err"
    /\ batches' = Record("discarded")
    /\ UNCHANGED <<impl, views_queue, downloads_queue, revenue_queue, task, local,
                   sink, added, nadds, overlap>>
    /\ UNCHANGED <<svars, rvars, ivars, pvars>>

\* Mutant: the closure unwraps the result, and so ends only on Ok.
IndexReturned_OkOnly ==
    /\ ipc = "ok"
    /\ ipc' = "idle"
    /\ local' = NoLocal
    /\ UNCHANGED <<impl, views_queue, downloads_queue, revenue_queue, task, tx, sink,
                   added, batches, nadds, overlap>>

\* Mutant: the closure does not await index, and ends while the call runs.
IndexReturned_NotAwaited ==
    /\ ipc # "idle"
    /\ UNCHANGED qvars

\* Back in the job's closure, index awaited: an Err is logged with warn!, an
\* Ok is not, and in both cases the closure's future completes.
IndexReturned ==
    /\ ipc \in {"ok", "err"}
    /\ ipc' = "idle"
    /\ local' = NoLocal
    /\ UNCHANGED <<impl, views_queue, downloads_queue, revenue_queue, task, tx, sink,
                   added, batches, nadds, overlap>>

FlushJobEnd ==
    /\ IndexReturned
    /\ UNCHANGED <<svars, rvars, ivars, pvars>>

\* --------------------------------------------------------------- scheduler
\* Scheduler::run(interval, task): one loop per registered job, which runs
\* the task to completion and then sleeps for the interval.  (The scheduler's
\* own file is not part of the sources; this follows section 4.2.)

\* How far the clock runs in one behaviour.
Horizon == IF overlap = "system" THEN MaxSystemTime ELSE MaxTime

\* The clock advances, whatever the jobs are doing.
Tick ==
    /\ now < Horizon
    /\ now' = now + 1
    /\ UNCHANGED <<wake, running, last_start, last_done, last_result>>
    /\ UNCHANGED <<qvars, rvars, ivars, pvars>>

\* Mutant: a fixed-rate timer, counted from the start of the execution.
NextWake_FixedRate(j) == last_start[j] + Interval(j)

\* When the sleep that follows an execution ends.
NextWake(j) == now + Interval(j)

\* Mutant: one loop for all the jobs, which runs them one after another.
MayStart_Serial(j) ==
    /\ running[j] = 0 /\ now >= wake[j]
    /\ \A k \in Jobs : running[k] = 0

\* The job's loop may start an execution.
MayStart(j) == running[j] = 0 /\ now >= wake[j]

\* The loop of job j calls the task.
StartJob(j) ==
    /\ MayStart(j)
    /\ running' = [running EXCEPT ![j] = @ + 1]
    /\ last_start' = [last_start EXCEPT ![j] = now]
    /\ UNCHANGED <<now, wake, last_done, last_result>>

JobStart(j) ==
    /\ StartJob(j)
    /\ UNCHANGED <<qvars, rvars, ivars, pvars>>

\* The task's future completes, its body having got result r, and the loop
\* goes to sleep.
FinishJob(j, r) ==
    /\ running[j] > 0
    /\ running' = [running EXCEPT ![j] = @ - 1]
    /\ last_done' = [last_done EXCEPT ![j] = now]
    /\ last_result' = [last_result EXCEPT ![j] = r]
    /\ wake' = [wake EXCEPT ![j] = NextWake(j)]
    /\ UNCHANGED <<now, last_start>>

\* What the body of a job may get from the call it awaits: reader_ref.index()
\* and analytics_queue_ref.index(client_ref) both return a Result.
Results == {"ok", "err"}

JobDone(j) ==
    /\ \E r \in Results : FinishJob(j, r)
    /\ UNCHANGED <<qvars, rvars, ivars, pvars>>

NextSched ==
    \/ Tick
    \/ \E j \in Jobs : JobStart(j)
    \/ \E j \in Jobs : JobDone(j)

\* ------------------------------------------------------------ rate limiter
\* ip.parse::<IpAddr>(): Ok for four octets and for eight 16-bit groups.
IpParse(ip) ==
    IF ip.form = "dotted" /\ Len(ip.parts) = 4
         /\ \A i \in 1..4 : ip.parts[i] <= 255
    THEN [ok |-> TRUE, v |-> 4, bits |-> ip.parts]
    ELSE IF ip.form = "colons" /\ Len(ip.parts) = 8
              /\ \A i \in 1..8 : ip.parts[i] <= 65535
    THEN [ok |-> TRUE, v |-> 6, bits |-> ip.parts]
    ELSE [ok |-> FALSE, v |-> 0, bits |-> <<>>]

\* Mutant: the fallback is the unspecified address.
UnwrapOr_Unspecified(r) ==
    IF r.ok THEN [v |-> r.v, bits |-> r.bits]
    ELSE [v |-> 4, bits |-> <<0, 0, 0, 0>>]

\* .unwrap_or(IpAddr::V4(Ipv4Addr::new(127, 0, 0, 1)))
UnwrapOrLoopback(r) ==
    IF r.ok THEN [v |-> r.v, bits |-> r.bits]
    ELSE [v |-> 4, bits |-> <<127, 0, 0, 1>>]

\* Mutant: the whole IPv6 address is formatted.
IpString_Whole(ip_addr) ==
    IF ip_addr.v = 4 THEN [fmt |-> "to_string", nums |-> ip_addr.bits]
    ELSE [fmt |-> "{:X?}", nums |-> ip_addr.bits]

\* match ip_addr: V4(x) => x.to_string(), V6(x) => format!("{:X?}",
\* &x.segments()[0..4]).  A string is held as its format and the numbers
\* written in it; the two formats never give the same text.
IpString(ip_addr) ==
    IF ip_addr.v = 4 THEN [fmt |-> "to_string", nums |-> ip_addr.bits]
    ELSE [fmt |-> "{:X?}", nums |-> SubSeq(ip_addr.bits, 1, 4)]

\* Sha256 of format!("{}{}", ip, self.pepper), formatted with {:X?}; the
\* digest is held as what was hashed (no two inputs collide).
Sha256(ip, pepper) == [hashed |-> ip, pepper |-> pepper]

\* Mutant: the entry does not hold the site path.
PageViewEntry_NoPath(ip, site_path) ==
    [ip |-> Sha256(IpString(UnwrapOrLoopback(IpParse(ip))), Pepper),
     site_path |-> ""]

\* The PageViewEntry that add builds from its arguments.
PageViewEntry(ip, site_path) ==
    [ip |-> Sha256(IpString(UnwrapOrLoopback(IpParse(ip))), Pepper),
     site_path |-> site_path]
EntryOf(c) == PageViewEntry(c.ip, c.site_path)

RECURSIVE SumOver(_, _)
SumOver(S, f) ==
    IF S = {} THEN 0
    ELSE LET x == CHOOSE y \in S : TRUE IN f[x] + SumOver(S \ {x}, f)
\* The clients whose requests fall on an entry.
ClientsOf(key) == {c \in clients : EntryOf(c) = key}
\* The add calls begun for an entry in the window.
Observed(key) ==
    SumOver(ClientsOf(key), rl_seen)
      + Cardinality({t \in Threads : rl_task[t].pc = "insert" /\ rl_task[t].key = key})

\* The call of client c returns result.
Returned(c, result) ==
    /\ rl_seen' = [rl_seen EXCEPT ![c] = @ + 1]
    /\ rl_admitted' = [rl_admitted EXCEPT ![c] = @ + (IF result THEN 1 ELSE 0)]

\* Mutant: the counter is compared before it is incremented.
Admit_BeforeIncrement(val) == ~(val - 1 >= Threshold)

\* if val.value() >= &5 { return false; } ... true
Admit(val) == ~(val >= Threshold)

\* RateLimitQueue::add up to and including its get_mut: an entry present is
\* incremented and compared under the shard's lock; for an entry absent the
\* insert is still to do.
ratelimit_add(t, c) ==
    /\ c \in clients
    /\ rl_task[t].pc = "idle"
    /\ overlap # "any" => \A u \in Threads : rl_task[u].pc = "idle"
    /\ Observed(EntryOf(c)) < MaxObservations
    /\ LET key == EntryOf(c) IN
         IF Has(rl_queue, key)
         THEN /\ rl_queue' = Increment(rl_queue, key, 1)
              /\ Returned(c, Admit(rl_queue'[key]))
              /\ rl_task' = rl_task
         ELSE /\ rl_task' = [rl_task EXCEPT ![t] = [pc |-> "insert", key |-> key,
                                                     client |-> c]]
              /\ UNCHANGED <<rl_queue, rl_seen, rl_admitted>>
    /\ UNCHANGED <<clients, rl_prev, rl_resets>>
    /\ UNCHANGED <<qvars, svars, ivars, pvars>>

\* The else branch of add: self.views_queue.insert(key, 0), and true.
ratelimit_insert(t) ==
    /\ rl_task[t].pc = "insert"
    /\ rl_queue' = Insert(rl_queue, rl_task[t].key, 0)
    /\ Returned(rl_task[t].client, TRUE)
    /\ rl_task' = [rl_task EXCEPT ![t] = Idle]
    /\ UNCHANGED <<clients, rl_prev, rl_resets>>
    /\ UNCHANGED <<qvars, svars, ivars, pvars>>

\* RateLimitQueue::index: self.views_queue.clear().  A new window begins.
ratelimit_index ==
    /\ rl_resets < MaxResets
    /\ overlap = "none" => \A u \in Threads : rl_task[u].pc = "idle"
    /\ rl_queue' = Clear(rl_queue)
    /\ rl_resets' = rl_resets + 1
    /\ rl_prev' = {c \in clients : rl_admitted[c] < rl_seen[c]}
    /\ rl_seen' = [c \in clients |-> 0]
    /\ rl_admitted' = [c \in clients |-> 0]
    /\ UNCHANGED <<clients, rl_task>>
    /\ UNCHANGED <<qvars, svars, ivars, pvars>>

NextRateLimit ==
    \/ \E t \in Threads, c \in RlClients : ratelimit_add(t, c)
    \/ \E t \in Threads : ratelimit_insert(t)
    \/ ratelimit_index

\* ------------------------------------------------------------------ base62
\* char::is_ascii_digit, is_ascii_uppercase, is_ascii_lowercase: the
\* characters of each class, in the order of their codes.
AsciiDigits == <<"0", "1", "2", "3", "4", "5", "6", "7", "8", "9">>
AsciiUppercase ==
    <<"A", "B", "C", "D", "E", "F", "G", "H", "I", "J", "K", "L", "M",
      "N", "O", "P", "Q", "R", "S", "T", "U", "V", "W", "X", "Y", "Z">>
AsciiLowercase ==
    <<"a", "b", "c", "d", "e", "f", "g", "h", "i", "j", "k", "l", "m",
      "n", "o", "p", "q", "r", "s", "t", "u", "v", "w", "x", "y", "z">>
IsIn(chars, c) == \E i \in 1..Len(chars) : chars[i] = c
\* c as u8 - b'0', c as u8 - b'A', c as u8 - b'a'
Offset(chars, c) == (CHOOSE i \in 1..Len(chars) : chars[i] = c) - 1

\* const BASE62_CHARS: [u8; 62]
BASE62_CHARS ==
    <<"0", "1", "2", "3", "4", "5", "6", "7", "8", "9",
      "A", "B", "C", "D", "E", "F", "G", "H", "I", "J", "K", "L", "M",
      "N", "O", "P", "Q", "R", "S", "T", "U", "V", "W", "X", "Y", "Z",
      "a", "b", "c", "d", "e", "f", "g", "h", "i", "j", "k", "l", "m",
      "n", "o", "p", "q", "r", "s", "t", "u", "v", "w", "x", "y", "z">>

\* A u64 is held as four limbs of 16 bits, the most significant first.
Limb == 65536
Zero == <<0, 0, 0, 0>>
U64Max == <<65535, 65535, 65535, 65535>>
\* num * k + d in 64 bits: the low 64 bits and whether anything was lost
MulAdd(num, k, d) ==
    LET l4 == num[4] * k + d
        l3 == num[3] * k + l4 \div Limb
        l2 == num[2] * k + l3 \div Limb
        l1 == num[1] * k + l2 \div Limb
    IN [overflow |-> l1 \div Limb > 0,
        n |-> <<l1 % Limb, l2 % Limb, l3 % Limb, l4 % Limb>>]
\* num / k and num % k, by long division
DivMod(num, k) ==
    LET r1 == num[1] % k
        r2 == (r1 * Limb + num[2]) % k
        r3 == (r2 * Limb + num[3]) % k
    IN [quot |-> <<num[1] \div k, (r1 * Limb + num[2]) \div k,
                   (r2 * Limb + num[3]) \div k, (r3 * Limb + num[4]) \div k>>,
        rem |-> (r3 * Limb + num[4]) % k]
\* num.checked_mul(62).and_then(|n| n.checked_add(next_digit))
CheckedMulAdd(num, next_digit) ==
    LET n == MulAdd(num, 62, next_digit)
    IN IF n.overflow THEN [some |-> FALSE, n |-> Zero] ELSE [some |-> TRUE, n |-> n.n]
\* The number as a natural number (of use below 2^31 only).
AsNat(num) == num[3] * Limb + num[4]
\* The u64 of a natural number below 2^31.
U64(n) == <<0, 0, n \div Limb, n % Limb>>

\* Mutant: the alphabet with the lower case before the upper case.
Base62Digit_LowerFirst(d) == (AsciiDigits \o AsciiLowercase \o AsciiUppercase)[d + 1]

\* BASE62_CHARS[(num % 62) as usize] as char
Base62Digit(d) == BASE62_CHARS[d + 1]

\* The while loop of to_base62 (length is the capacity of output only).
RECURSIVE ToLoop(_, _)
ToLoop(num, output) ==
    IF num = Zero THEN output
    ELSE ToLoop(DivMod(num, 62).quot, <<Base62Digit(DivMod(num, 62).rem)>> \o output)
to_base62(num) == ToLoop(num, <<>>)

\* The for loop of parse_base62, with num decoded so far and rest to read.
RECURSIVE ParseLoop(_, _)
ParseLoop(num, rest) ==
    IF rest = <<>> THEN [ok |-> TRUE, num |-> num, err |-> "", char |-> ""]
    ELSE LET c == Head(rest)
             valid == IsIn(AsciiDigits, c) \/ IsIn(AsciiUppercase, c)
                        \/ IsIn(AsciiLowercase, c)
             next_digit ==
                 IF IsIn(AsciiDigits, c) THEN Offset(AsciiDigits, c)
                 ELSE IF IsIn(AsciiUppercase, c) THEN 10 + Offset(AsciiUppercase, c)
                 ELSE 36 + Offset(AsciiLowercase, c)
         IN IF ~valid
            THEN [ok |-> FALSE, num |-> Zero, err |-> "InvalidBase62", char |-> c]
            ELSE LET n == CheckedMulAdd(num, next_digit)
                 IN IF n.some THEN ParseLoop(n.n, Tail(rest))
                    ELSE [ok |-> FALSE, num |-> Zero, err |-> "Overflow", char |-> ""]
parse_base62(string) == ParseLoop(Zero, string)

\* The numbers put through to_base62 and parse_base62: the small ones, and
\* those with every limb 0, 1 or 65535 (0 and u64::MAX among them).
Numbers ==
    {U64(n) : n \in 0..MaxSmall}
      \cup {<<a, b, c, d>> : a, b, c, d \in {0, 1, 65535}}
\* The strings put through parse_base62: a run of z, then nothing, a
\* character of the alphabet or one outside it, then the same again; and the
\* strings of u64::MAX and of u64::MAX + 1.
ZRun(k) == [i \in 1..k |-> "z"]
MaxString == <<"L", "y", "g", "H", "a", "1", "6", "A", "H", "Y", "F">>
OverMaxString == <<"L", "y", "g", "H", "a", "1", "6", "A", "H", "Y", "G">>
Strings ==
    {ZRun(k) \o mid \o last :
        k \in 0..MaxRun, mid \in {<<>>, <<"!">>, <<" ">>, <<"g">>},
        last \in {<<>>, <<"1">>, <<"?">>}}
      \cup {MaxString, OverMaxString, <<"0">> \o MaxString}
NoResult == [ok |-> FALSE, num |-> Zero, err |-> "", char |-> ""]

\* A number is about to be encoded, or a string about to be parsed.
InitBase62 ==
    /\ InitQueue("base62") /\ impl = "scheduled"
    /\ RateLimitInit({})
    /\ IngestInit({})
    /\ check = NoCall
    /\ \/ \E n \in Numbers :
              b62 = [pc |-> "encode", num |-> n, string |-> <<>>, result |-> NoResult]
       \/ \E string \in Strings :
              b62 = [pc |-> "parse", num |-> Zero, string |-> string, result |-> NoResult]

\* to_base62(num)
Encode ==
    /\ b62.pc = "encode"
    /\ b62' = [b62 EXCEPT !.pc = "encoded", !.string = to_base62(b62.num)]
    /\ UNCHANGED <<qvars, svars, rvars, ivars, check>>

\* parse_base62(string), of an encoded number or of a string
Decode ==
    /\ b62.pc \in {"encoded", "parse"}
    /\ b62' = [b62 EXCEPT !.pc = IF b62.pc = "encoded" THEN "decoded" ELSE "parsed",
                          !.result = parse_base62(b62.string)]
    /\ UNCHANGED <<qvars, svars, rvars, ivars, check>>

NextBase62 == Encode \/ Decode

\* ------------------------------------------------------------------- query
\* enum Resolution, in the order of its declaration (derive(PartialOrd))
Resolutions ==
    <<"FiveMinutes", "FifteenMinutes", "OneHour", "SixHours", "TwelveHours",
      "OneDay", "OneWeek", "OneMonth">>
\* resolution < min_resolution
Less(a, b) == Offset(Resolutions, a) < Offset(Resolutions, b)
\* Resolution::convert_to_postgres
convert_to_postgres(resolution) ==
    CASE resolution = "FiveMinutes" -> "1 minute"
      [] resolution = "FifteenMinutes" -> "15 minutes"
      [] resolution = "OneHour" -> "1 hour"
      [] resolution = "SixHours" -> "6 hours"
      [] resolution = "TwelveHours" -> "12 hours"
      [] resolution = "OneDay" -> "1 day"
      [] resolution = "OneWeek" -> "1 week"
      [] resolution = "OneMonth" -> "1 month"

\* ApiError::status_code, and the statuses the handlers answer with
BAD_REQUEST == 400
FAILED_DEPENDENCY == 424
UNAUTHORIZED == 401
NO_CONTENT == 204
NOT_FOUND == 404
Ok(x) == [ok |-> TRUE, status |-> 200, value |-> x]
Err(status) == [ok |-> FALSE, status |-> status, value |-> ""]

\* a & b, on u32
RECURSIVE BitAnd(_, _)
BitAnd(a, b) ==
    IF a = 0 \/ b = 0 THEN 0
    ELSE (a % 2) * (b % 2) + 2 * BitAnd(a \div 2, b \div 2)
VIEW_ANALYTICS == 256
VIEW_PAYOUTS == 512

\* Mutant: a member that has not accepted counts.
Allows_Unaccepted(x, user, permission) ==
    x.user_id = user.id /\ BitAnd(x.permissions, permission) = permission

\* x.user.id == user.id && x.accepted && (x.permissions & permission) == permission
Allows(x, user, permission) ==
    x.user_id = user.id /\ x.accepted /\ BitAnd(x.permissions, permission) = permission

\* check_is_authorized, labrinth answering the user request with user_reply
\* and the members request with members_reply
check_is_authorized(project_id, token, use_payouts_permission, user_reply, members_reply) ==
    IF token # "valid" THEN Err(UNAUTHORIZED)
    ELSE IF ~user_reply.ok THEN Err(FAILED_DEPENDENCY)
    ELSE IF user_reply.user.role # "admin"
    THEN IF project_id.some
         THEN IF ~members_reply.ok THEN Err(FAILED_DEPENDENCY)
              ELSE LET permission == IF use_payouts_permission THEN VIEW_PAYOUTS
                                     ELSE VIEW_ANALYTICS
                   IN IF \E i \in 1..Len(members_reply.members) :
                             Allows(members_reply.members[i], user_reply.user, permission)
                      THEN Ok("") ELSE Err(UNAUTHORIZED)
         ELSE Err(UNAUTHORIZED)
    ELSE Ok("")

\* perform_analytics_checks after check_is_authorized
min_resolution(interval) ==
    IF interval > 2 * 365 * 24 * 60 * 60 THEN "OneWeek"
    ELSE IF interval > 90 * 24 * 60 * 60 THEN "OneDay"
    ELSE IF interval > 30 * 24 * 60 * 60 THEN "OneHour"
    ELSE IF interval > 7 * 24 * 60 * 60 THEN "FifteenMinutes"
    ELSE "FiveMinutes"
Clamp(interval, resolution) ==
    IF interval < 300 THEN Err(BAD_REQUEST)
    ELSE Ok(convert_to_postgres(
                IF resolution.some
                THEN IF Less(resolution.val, min_resolution(interval))
                     THEN min_resolution(interval) ELSE resolution.val
                ELSE min_resolution(interval)))

\* The Authorization header: absent, not a string (to_str fails), or a token.
Tokens == {"absent", "not_str", "valid"}
\* What labrinth answers to GET user: nothing that decodes, or a user.
UserReplies ==
    {[ok |-> FALSE, user |-> [id |-> "", role |-> ""]]}
      \cup {[ok |-> TRUE, user |-> [id |-> "u1", role |-> role]] :
               role \in {"developer", "moderator", "admin"}}
\* TeamMember: the id of its user, accepted, permissions
Members ==
    [user_id : {"u1", "u2"}, accepted : BOOLEAN, permissions : {0, 255, 256, 512, 768}]
Stranger == [user_id |-> "u2", accepted |-> TRUE, permissions |-> 768]
\* What labrinth answers to GET project/{id}/members.
MembersReplies ==
    {[ok |-> FALSE, members |-> <<>>], [ok |-> TRUE, members |-> <<>>]}
      \cup {[ok |-> TRUE, members |-> <<x>>] : x \in Members}
      \cup {[ok |-> TRUE, members |-> <<Stranger, x>>] : x \in Members}
\* end_date - start_date in seconds, about the thresholds
Day == 24 * 60 * 60
Intervals ==
    {-1, 299, 300, 7 * Day, 7 * Day + 1, 30 * Day, 30 * Day + 1, 90 * Day,
     90 * Day + 1, 730 * Day, 730 * Day + 1}
RequestedResolutions ==
    {None("")} \cup {Some(Resolutions[i]) : i \in 1..Len(Resolutions)}
\* A call of an admin for the last week, in the default resolution.
AdminCall ==
    [project_id |-> None(""), token |-> "valid", use_payouts_permission |-> FALSE,
     user_reply |-> [ok |-> TRUE, user |-> [id |-> "u1", role |-> "admin"]],
     members_reply |-> [ok |-> FALSE, members |-> <<>>],
     interval |-> 7 * Day, resolution |-> None("")]
\* The calls followed: every way of authorization with the dates and the
\* resolution of AdminCall, and an admin's calls with every interval and
\* resolution.
Calls ==
    {[AdminCall EXCEPT !.project_id = p, !.token = t, !.use_payouts_permission = u,
                       !.user_reply = ur, !.members_reply = mr] :
        p \in {None(""), Some("foo")}, t \in Tokens, u \in BOOLEAN,
        ur \in UserReplies, mr \in MembersReplies}
      \cup {[AdminCall EXCEPT !.interval = i, !.resolution = r] :
               i \in Intervals, r \in RequestedResolutions}

InitQuery ==
    /\ InitQueue("query") /\ impl = "scheduled"
    /\ RateLimitInit({})
    /\ IngestInit({})
    /\ b62 = NoCall
    /\ \E c \in Calls : check = [pc |-> "called", args |-> c, auth |-> Err(0),
                                 result |-> Err(0)]

\* perform_analytics_checks up to the `?` of its check_is_authorized call
Authorize ==
    /\ check.pc = "called"
    /\ LET a == check.args
           auth == check_is_authorized(a.project_id, a.token, a.use_payouts_permission,
                                       a.user_reply, a.members_reply)
       IN check' = [check EXCEPT !.auth = auth,
                                 !.pc = IF auth.ok THEN "authorized" ELSE "returned",
                                 !.result = IF auth.ok THEN check.result ELSE auth]
    /\ UNCHANGED <<qvars, svars, rvars, ivars, b62>>

\* perform_analytics_checks from there to its return
Resolve ==
    /\ check.pc = "authorized"
    /\ check' = [check EXCEPT !.pc = "returned",
                              !.result = Clamp(check.args.interval, check.args.resolution)]
    /\ UNCHANGED <<qvars, svars, rvars, ivars, b62>>

NextQuery == Authorize \/ Resolve

\* ------------------------------------------------------------------ ingest
\* What Url::parse makes of the url of a request: whether it parses, and
\* then its host (its labels; none when the url has no host), its path and
\* the segments of the path.
UrlGarbage == [parses |-> FALSE, host |-> <<>>, path |-> "", segments |-> <<>>]
UrlNoHost ==
    [parses |-> TRUE, host |-> <<>>, path |-> "/mod/foo", segments |-> <<"mod", "foo">>]
UrlEvil ==
    [parses |-> TRUE, host |-> <<"evil", "com">>, path |-> "/mod/foo",
     segments |-> <<"mod", "foo">>]
UrlFoo ==
    [parses |-> TRUE, host |-> <<"modrinth", "com">>, path |-> "/mod/foo",
     segments |-> <<"mod", "foo">>]
UrlApp ==
    [parses |-> TRUE, host |-> <<"app", "modrinth", "com">>, path |-> "/mod/foo",
     segments |-> <<"mod", "foo">>]
Urls == {UrlGarbage, UrlNoHost, UrlEvil, UrlFoo, UrlApp}

\* The Modrinth-Admin header of a request, against ARIADNE_ADMIN_KEY.
AdminHeaders == {"absent", "valid"}
\* POST v1/view: the body's url, ip and headers, the request's admin header
\* and other headers, the address of its peer (the requests all come from one
\* client), and the country maxmind has for the address.
ViewRequests ==
    [url : Urls, admin : AdminHeaders, peer : {V4A}, ip : {None(Junk)},
     headers : {None(NoHeaders)}, http : {PlainHttp}, country : {Some("US")}]
\* The same with the body and the headers varied, for what the events hold.
EventBodies ==
    {[ip |-> None(Junk), headers |-> None(NoHeaders)],
     [ip |-> Some(Junk), headers |-> Some(BodyCapitals)],
     [ip |-> None(Junk), headers |-> Some(BodyLower)]}
EventViews ==
    {[url |-> UrlFoo, admin |-> a, peer |-> V4A, ip |-> b.ip, headers |-> b.headers,
      http |-> h, country |-> c] :
        a \in AdminHeaders, b \in EventBodies, h \in {PlainHttp, BadProxyHttp},
        c \in Countries}
\* What the project check of labrinth comes to: the request is not sent or
\* not answered, the status is no success, the body is not the expected
\* json, or the body holds an id.
LabrinthReplies ==
    {[sent |-> FALSE, success |-> FALSE, json |-> FALSE, id |-> <<>>],
     [sent |-> TRUE, success |-> FALSE, json |-> FALSE, id |-> <<>>],
     [sent |-> TRUE, success |-> TRUE, json |-> FALSE, id |-> <<>>],
     [sent |-> TRUE, success |-> TRUE, json |-> TRUE, id |-> <<"g">>]}
\* The project check is answered, with an id or with a status of no success.
EventReplies == {lab \in LabrinthReplies : lab.sent /\ (lab.success => lab.json)}
\* POST v1/download: the body's url, project_id and version_id.
TwelveZ == [i \in 1..12 |-> "z"]
GoodDownload ==
    [url |-> UrlFoo, admin |-> "valid", project_id |-> <<"g">>,
     version_id |-> <<"1", "0">>, ip |-> V4A, headers |-> PlainHttp,
     country |-> Some("US")]
\* The same with the ip, the headers and the country varied.
EventDownloads ==
    {[r EXCEPT !.ip = ip, !.headers = h, !.country = c] :
        r \in {GoodDownload, [GoodDownload EXCEPT !.url = UrlGarbage]},
        ip \in {V6A, BadOctet}, h \in {BodyCapitals, BodyLower}, c \in Countries}
DownloadRequests ==
    {GoodDownload,
     [GoodDownload EXCEPT !.admin = "absent"],
     [GoodDownload EXCEPT !.url = UrlGarbage],
     [GoodDownload EXCEPT !.project_id = <<"g", "!">>],
     [GoodDownload EXCEPT !.project_id = TwelveZ],
     [GoodDownload EXCEPT !.version_id = <<"?">>]}
PROJECT_TYPES == {"mod", "modpack", "plugin", "resourcepack", "shader", "datapack"}

\* Mutant: every domain is let through.
DomainAllowed_Any(domain) == TRUE

\* domain.ends_with(".modrinth.com") || domain == "modrinth.com"
\*   || allowed_origins.contains(&"*".to_string())
DomainAllowed(domain) ==
    \/ Len(domain) >= 3 /\ SubSeq(domain, Len(domain) - 1, Len(domain)) = <<"modrinth", "com">>
    \/ domain = <<"modrinth", "com">>
    \/ "*" \in allowed_origins

\* ApiError::InvalidInput, returned by `?` before anything is added.
Rejected400 == [status |-> BAD_REQUEST, adds |-> FALSE, key |-> Foo]

\* Mutant: a project id that does not parse is taken as 0.
Download_IdDefault(r) ==
    LET parsed_pid == parse_base62(r.project_id)
        parsed_vid == parse_base62(r.version_id)
    IN IF ~r.url.parses THEN Rejected400
       ELSE IF ~parsed_vid.ok THEN Rejected400
       ELSE [status |-> NO_CONTENT, adds |-> TRUE,
             key |-> [project_id |-> AsNat(parsed_pid.num), site_path |-> r.url.path]]

\* downloads_ingest up to its call of add_download: the status the request
\* is answered with, and the key of the download when there is one.
Download(r) ==
    LET parsed_pid == parse_base62(r.project_id)
        parsed_vid == parse_base62(r.version_id)
    IN IF ~r.url.parses THEN Rejected400
       ELSE IF ~parsed_pid.ok THEN Rejected400
       ELSE IF ~parsed_vid.ok THEN Rejected400
       ELSE [status |-> NO_CONTENT, adds |-> TRUE,
             key |-> [project_id |-> AsNat(parsed_pid.num), site_path |-> r.url.path]]

\* page_view_ingest up to its call of add_view, the project check having
\* come to lab: the status, and the key of the view when there is one.
PageView(r, lab) ==
    IF ~r.url.parses THEN Rejected400
    ELSE IF r.url.host = <<>> THEN Rejected400
    ELSE IF ~DomainAllowed(r.url.host) THEN Rejected400
    ELSE IF Len(r.url.segments) >= 2 /\ r.url.segments[1] \in PROJECT_TYPES
    THEN IF ~lab.sent THEN [status |-> FAILED_DEPENDENCY, adds |-> FALSE, key |-> Foo]
         ELSE IF ~lab.success
         THEN [status |-> NO_CONTENT, adds |-> TRUE,
               key |-> [project_id |-> 0, site_path |-> r.url.path]]
         ELSE IF ~lab.json THEN [status |-> FAILED_DEPENDENCY, adds |-> FALSE, key |-> Foo]
         ELSE LET id == parse_base62(lab.id)
              IN [status |-> NO_CONTENT, adds |-> TRUE,
                  key |-> [project_id |-> IF id.ok THEN AsNat(id.num) ELSE 0,
                           site_path |-> r.url.path]]
    ELSE [status |-> NO_CONTENT, adds |-> TRUE,
          key |-> [project_id |-> 0, site_path |-> r.url.path]]

\* Ipv4Addr::to_ipv6_mapped
to_ipv6_mapped(x) == <<0, 0, 0, 0, 0, 65535, x[1] * 256 + x[2], x[3] * 256 + x[4]>>
\* convert_to_ip_v6: the eight segments of the address, or the parse error
convert_to_ip_v6(src) ==
    LET ip_addr == IpParse(src)
    IN IF ~ip_addr.ok THEN [ok |-> FALSE, segments |-> <<>>]
       ELSE [ok |-> TRUE,
             segments |-> IF ip_addr.v = 4 THEN to_ipv6_mapped(ip_addr.bits)
                          ELSE ip_addr.bits]

\* Mutant: an ip that does not parse is stored as the unspecified address.
IpOrLoopback_Unspecified(res) ==
    IF res.ok THEN res.segments ELSE <<0, 0, 0, 0, 0, 0, 0, 0>>

\* .unwrap_or_else(|_| Ipv4Addr::new(127, 0, 0, 1).to_ipv6_mapped())
IpOrLoopback(res) ==
    IF res.ok THEN res.segments ELSE to_ipv6_mapped(<<127, 0, 0, 1>>)

\* Mutant: an unknown country is stored as "ZZ".
CountryOrDefault_ZZ(country) == IF country.some THEN country.val ELSE "ZZ"

\* maxmind.query(ip).await.unwrap_or_default()
CountryOrDefault(country) == IF country.some THEN country.val ELSE ""

\* The entries of a header map whose names are in keep.
Retain(headers, keep) == [n \in DOMAIN headers \cap keep |-> headers[n]]

\* The Download that downloads_ingest builds (its ip, country and headers).
DownloadEvent(r) ==
    [ip |-> IpOrLoopback(convert_to_ip_v6(r.ip)),
     country |-> CountryOrDefault(r.country),
     headers |-> Retain(r.headers,
                        {x \in DOMAIN r.headers : to_lowercase(x) \notin FILTERED_HEADERS})]

\* req.headers() with the names in lower case
TempHeaders(r) ==
    IF r.admin = "absent" THEN r.http ELSE (Lower("modrinth-admin") :> Junk) @@ r.http
\* The headers page_view_ingest goes by: those of the body when the request
\* comes from the server with some, those of the request otherwise.
ViewHeaders(r) ==
    IF r.admin = "valid" /\ r.headers.some THEN r.headers.val ELSE TempHeaders(r)
\* The string page_view_ingest takes the ip from.
ViewIpSource(r) ==
    IF r.admin = "valid" /\ r.ip.some THEN r.ip.val
    ELSE IF Lower("cf-connecting-ip") \in DOMAIN ViewHeaders(r)
    THEN ViewHeaders(r)[Lower("cf-connecting-ip")]
    ELSE r.peer
\* The PageView that page_view_ingest builds (its ip, country and headers).
ViewEvent(r) ==
    [ip |-> IpOrLoopback(convert_to_ip_v6(ViewIpSource(r))),
     country |-> CountryOrDefault(r.country),
     headers |-> Retain(ViewHeaders(r),
                        {x \in DOMAIN ViewHeaders(r) : x \notin FILTERED_HEADERS})]

\* A handler takes a request; it is answered with out.status.
Takes(handler, r, out) ==
    /\ overlap \in {"ingest", "event"}
    /\ last_response' = out.status
    /\ event' = IF ~out.adds THEN event
                ELSE IF handler = "view" THEN ViewEvent(r) ELSE DownloadEvent(r)
    /\ served' = IF handler = "view" /\ out.adds /\ r.admin # "valid"
                 THEN [served EXCEPT ![r.url.path] = @ + 1] ELSE served
    /\ UNCHANGED <<allowed_origins, rvars, pvars>>

\* The handler goes on to its add call, or returns without one.
Hands(t, kind, out) ==
    IF out.adds THEN get_mut(t, kind, out.key, 1)
    ELSE /\ \A u \in Threads : task[u].pc = "idle"
         /\ UNCHANGED <<qvars, svars>>

\* #[post("v1/download", guard = "admin_key_guard")] downloads_ingest
downloads_ingest(t, r) ==
    LET out == IF r.admin # "valid"
               THEN [status |-> NOT_FOUND, adds |-> FALSE, key |-> Foo]
               ELSE Download(r)
    IN /\ Takes("download", r, out)
       /\ Hands(t, "downloads", out)

\* #[post("v1/view")] page_view_ingest
page_view_ingest(t, r, lab) ==
    LET out == PageView(r, lab)
    IN /\ Takes("view", r, out)
       /\ Hands(t, "views", out)

\* The requests are taken one after another, here all by one worker.
Worker == CHOOSE t \in Threads : TRUE
NextIngest ==
    \/ \E r \in ViewRequests, lab \in LabrinthReplies : page_view_ingest(Worker, r, lab)
    \/ \E r \in DownloadRequests : downloads_ingest(Worker, r)
    \/ insert(Worker)
\* The same requests, with their bodies and headers varied.
NextEvent ==
    \/ \E r \in EventViews, lab \in EventReplies : page_view_ingest(Worker, r, lab)
    \/ \E r \in EventDownloads : downloads_ingest(Worker, r)
    \/ insert(Worker)

\* The whole of main: the flush job's closure is the task the scheduler runs,
\* so an execution of the job begins with the call of index and ends when
\* the closure's future completes.
FlushExecStart ==
    /\ StartJob("flush")
    /\ CallIndex
    /\ UNCHANGED <<rvars, ivars, pvars>>

FlushExecEnd ==
    /\ IndexReturned
    /\ FinishJob("flush", ipc)
    /\ UNCHANGED <<rvars, ivars, pvars>>

NextSystem ==
    \/ \E t \in Threads, key \in PageViewKey : add_view(t, key)
    \/ \E t \in Threads, key \in DownloadKey : add_download(t, key)
    \/ \E t \in Threads : insert(t)
    \/ Tick
    \/ JobStart("maxmind")
    \/ JobDone("maxmind")
    \/ FlushExecStart
    \/ \E kind \in CounterKinds : IndexClone(kind)
    \/ \E kind \in CounterKinds : IndexClear(kind)
    \/ IndexEmpty
    \/ IndexBegin
    \/ IndexInsert
    \/ IndexCommit
    \/ IndexFail
    \/ FlushExecEnd

Next ==
    \/ \E t \in Threads, key \in PageViewKey : add_view(t, key)
    \/ \E t \in Threads, key \in DownloadKey : add_download(t, key)
    \/ \E t \in Threads, key \in RevenueKey, revenue \in Amounts :
           add_revenue(t, key, revenue)
    \/ \E t \in Threads : insert(t)
    \/ FlushJobStart
    \/ \E kind \in Kinds : IndexClone(kind)
    \/ \E kind \in Kinds : IndexClear(kind)
    \/ IndexEmpty
    \/ IndexBegin
    \/ IndexInsert
    \/ IndexCommit
    \/ IndexFail
    \/ FlushJobEnd

Spec == Init /\ [][Next]_vars
SpecOneWriter == InitOneWriter /\ [][Next]_vars
SpecSerial == InitSerial /\ [][Next]_vars
SpecSched == InitSched /\ [][NextSched]_vars
SpecRateLimit == InitRateLimit /\ [][NextRateLimit]_vars
SpecRateLimitRace == InitRateLimitRace /\ [][NextRateLimit]_vars
SpecIngest == InitIngest /\ [][NextIngest]_vars
SpecEvent == InitEvent /\ [][NextEvent]_vars
SpecBase62 == InitBase62 /\ [][NextBase62]_vars
SpecQuery == InitQuery /\ [][NextQuery]_vars

\* The runtime lets time pass and polls every task that can proceed.  An
\* execution of the maxmind job may take for ever, and whether the database
\* accepts or fails a flush is not the runtime's to decide.
SpecSchedFair ==
    /\ SpecSched
    /\ WF_vars(Tick)
    /\ \A j \in Jobs : WF_vars(JobStart(j))
    /\ WF_vars(JobDone("flush"))
SpecSystem ==
    /\ InitSystem /\ [][NextSystem]_vars
    /\ WF_vars(Tick)
    /\ WF_vars(JobStart("maxmind"))
    /\ WF_vars(FlushExecStart)
    /\ WF_vars(FlushExecEnd)

\* The same, with every thread that can take its next step taking it: the
\* worker in an add call reaches its insert, the statements of index follow
\* one another, and the database answers every statement it is sent, with
\* success or with an error.
DatabaseAnswers == IndexEmpty \/ IndexBegin \/ IndexInsert \/ IndexCommit \/ IndexFail
SpecFlushFair ==
    /\ SpecSystem
    /\ \A t \in Threads : WF_vars(insert(t))
    /\ \A kind \in CounterKinds : WF_vars(IndexClone(kind))
    /\ \A kind \in CounterKinds : WF_vars(IndexClear(kind))
    /\ WF_vars(DatabaseAnswers)

\* ------------------------------------------------------------ observations

\* The counter stored for a key, 0 when the key is absent.
Cur(kind, k) == ValueOf(Queue(kind), k)
\* The index call holds clones that no batch records yet.
InProgress == ipc \notin {"idle", "ok", "err"}
\* What the rotations so far have captured of a key, in all batches.
Captured(kind, k) ==
    SumBatches(batches, kind, k)
      + (IF InProgress THEN ValueOf(LocalOf(local, kind), k) ELSE 0)
\* What the batches before the last recorded one captured of a key.
Earlier(kind, k) == SumBatches(SubSeq(batches, 1, Len(batches) - 1), kind, k)

RECURSIVE SumRows(_)
SumRows(R) ==
    IF R = {} THEN 0
    ELSE LET r == CHOOSE x \in R : TRUE IN r.value + SumRows(R \ {r})
\* What the sink holds of a key, over all committed batches.
SinkTotal(kind, k) == SumRows({r \in sink : r.kind = kind /\ r.key = k})
\* The rows of the committed batches.
CommittedRows ==
    UNION {BatchRows(i, batches[i].maps) :
             i \in {n \in 1..Len(batches) : batches[n].status = "committed"}}
LastStatus == IF batches = <<>> THEN "none" ELSE batches[Len(batches)].status

\* The step that ends the rotation of an index call: its last clear.
RotationDone == ipc # "check" /\ ipc' = "check"

\* The add calls completed in the window for an entry, and those of them
\* that returned true.
KeySeen(key) == SumOver(ClientsOf(key), rl_seen)
KeyAdmitted(key) == SumOver(ClientsOf(key), rl_admitted)
SeenBy(cs) == SumOver(cs, rl_seen)
AdmittedTo(cs) == SumOver(cs, rl_admitted)
Min(a, b) == IF a <= b THEN a ELSE b
\* What the limiter holds and has answered for an entry after n sequential
\* calls in a window: nothing before the first, then the counter n - 1, with
\* the first 5 calls admitted.
WindowLaw(key) ==
    /\ KeySeen(key) = 0 => ~Has(rl_queue, key)
    /\ KeySeen(key) >= 1 => ValueOf(rl_queue, key) = KeySeen(key) - 1
                            /\ Has(rl_queue, key)
    /\ KeyAdmitted(key) = Min(KeySeen(key), 5)
\* An add call of client c returns in this step.
Returns(c) == rl_seen'[c] = rl_seen[c] + 1

\* ------------------------------------------------------------------ claims

\* C1: with add calls running concurrently with index, every completed add is
\* counted in exactly one batch or is still pending: outside the window
\* between a map's clone and its clear, what the batches captured of a key
\* plus what the buffer holds equals the adds completed (none is dropped).
C1_Partition ==
    impl = "scheduled" =>
        \A kind \in CounterKinds : \A k \in KeysOf(kind) :
            ipc # "clear_" \o kind =>
                Captured(kind, k) + Cur(kind, k) = added[<<kind, k>>]

\* C2: with no call overlapping another, at the moment a rotation finishes
\* its batch holds for every key the adds made since the previous rotation
\* (all batches together hold every add made so far) and the buffer has no
\* entry for the key; at every rotation.
C2_RotationCounts ==
    [][(impl = "scheduled" /\ RotationDone) =>
          \A kind \in CounterKinds : \A k \in KeysOf(kind) :
              /\ ValueOf(LocalOf(local', kind), k)
                    = added'[<<kind, k>>] - SumBatches(batches', kind, k)
              /\ ~Has(Queue(kind)', k)
      ]_vars

C2_Witness ==
    /\ impl = "scheduled" /\ ipc = "check" /\ Len(batches) = 1
    /\ ValueOf(batches[1].maps.views_queue, Foo) = 1
    /\ ValueOf(local.views_queue, Foo) = 2
    /\ ValueOf(local.downloads_queue, Foo) = 1

\* C3: as long as no rotation has begun, the counter stored for a key equals
\* the amount of the add calls completed for it, however they interleave.
C3_NoLostUpdate ==
    (batches = <<>> /\ ipc = "idle") =>
        \A kind \in Kinds : \A k \in KeysOf(kind) :
            Cur(kind, k) = added[<<kind, k>>]

\* C4: in the three-map buffer, with no add overlapping the rotation, at the
\* moment the rotation finishes the batch holds every entry that was pending,
\* of every kind, with its value (all batches together hold every add made so
\* far): nothing pending was cleared without being captured.
C4_AllKindsCaptured ==
    [][(impl = "queue" /\ RotationDone) =>
          \A kind \in Kinds : \A k \in KeysOf(kind) :
              ValueOf(LocalOf(local', kind), k)
                = added'[<<kind, k>>] - SumBatches(batches', kind, k)
      ]_vars

\* C5: with no call overlapping another, after a committed flush the sink
\* holds of that batch exactly one row per key added since the previous
\* rotation, with the number of those adds, and the buffer holds only the
\* adds made after the rotation (none when there was none).
C5_FlushRows ==
    (impl = "scheduled" /\ ipc = "ok" /\ LastStatus = "committed") =>
        LET b == Len(batches)
            mine == {r \in sink : r.batch = b}
            expect(kind, k) == added[<<kind, k>>] - Earlier(kind, k) - Cur(kind, k)
        IN /\ \A r \in mine :
                  r.kind \in CounterKinds /\ r.value = expect(r.kind, r.key)
           /\ \A kind \in CounterKinds : \A k \in KeysOf(kind) :
                  Cardinality({r \in mine : r.kind = kind /\ r.key = k})
                    = (IF expect(kind, k) > 0 THEN 1 ELSE 0)

C5_Witness ==
    /\ impl = "scheduled" /\ ipc = "ok"
    /\ sink = {[batch |-> 1, kind |-> "views", key |-> Foo, value |-> 3],
               [batch |-> 1, kind |-> "views", key |-> Bar, value |-> 1]}
    /\ views_queue = EmptyMap
    /\ downloads_queue = EmptyMap
    /\ nadds = 4

\* C6: the rows of a discarded batch are not in the sink, and its counts are
\* neither put back into the buffer nor in a later batch: outside the window
\* between a map's clone and its clear, the buffer and the batches together
\* never hold more of a key than was added.
C6_FailedBatchDiscarded ==
    impl = "scheduled" =>
        /\ \A r \in sink : batches[r.batch].status = "committed"
        /\ \A kind \in CounterKinds : \A k \in KeysOf(kind) :
               ipc # "clear_" \o kind =>
                   Captured(kind, k) + Cur(kind, k) <= added[<<kind, k>>]

C6_Witness ==
    /\ impl = "scheduled" /\ ipc = "idle" /\ Len(batches) = 2
    /\ batches[1].status = "discarded"
    /\ ValueOf(batches[1].maps.views_queue, Foo) = 2
    /\ batches[2].status = "committed"
    /\ sink = {[batch |-> 2, kind |-> "views", key |-> Foo, value |-> 1]}
    /\ views_queue = EmptyMap

C8_AtMostOnce ==
    \A kind \in Kinds : \A k \in KeysOf(kind) :
        /\ Captured(kind, k) <= added[<<kind, k>>]
        /\ SinkTotal(kind, k) <= added[<<kind, k>>]

C8_Witness ==
    /\ Len(batches) = 2
    /\ batches[1].status = "committed" /\ batches[2].status = "committed"
    /\ Has(batches[1].maps.views_queue, Foo) /\ Has(batches[2].maps.views_queue, Foo)
    /\ SinkTotal("views", Foo) < added[<<"views", Foo>>]
    /\ ~Has(views_queue, Foo)

\* C9: the sink holds whole committed batches and nothing else: the rows of
\* an open transaction and of a discarded batch are not visible.
C9_AllOrNothing == sink = CommittedRows

C9_Witness ==
    /\ ipc = "insert" /\ tx # {} /\ NextRows # {}
    /\ sink # {}

\* C10: a job has at most one execution in progress, and an execution that
\* follows another began no earlier than the job's interval after the end of
\* the one before.
C10_FixedDelay ==
    \A j \in Jobs :
        /\ running[j] <= 1
        /\ (running[j] > 0 /\ last_done[j] >= 0) =>
               last_start[j] >= last_done[j] + Interval(j)

C10_Witness ==
    /\ running["flush"] = 1
    /\ last_done["flush"] = 3
    /\ last_start["flush"] = 3 + FlushInterval
    /\ running["maxmind"] = 1

\* C11: an execution of one job that is slow or never finishes does not
\* delay another job: while the maxmind job is in progress, for however long,
\* the flush job, once its own sleep has ended, starts its next execution.
C11_JobsIndependent ==
    (running["maxmind"] = 1 /\ running["flush"] = 0 /\ wake["flush"] <= Horizon)
        ~> (running["flush"] = 1)

C11_Witness ==
    /\ running["maxmind"] = 1 /\ last_done["maxmind"] = -1
    /\ running["flush"] = 1
    /\ last_done["flush"] >= 0
    /\ last_start["flush"] = last_done["flush"] + FlushInterval

\* C12: an execution whose body got an error ends like any other and the
\* job runs again: when index has returned an error the flush job's
\* execution completes with the error swallowed, and every job whose last
\* execution got an error starts its next one when its sleep has ended.
C12_FailureIsolated ==
    /\ (ipc = "err") ~>
           (ipc = "idle" /\ running["flush"] = 0 /\ last_result["flush"] = "err")
    /\ \A j \in Jobs :
           (/\ running[j] = 0 /\ last_result[j] = "err" /\ wake[j] <= Horizon
            /\ j = "flush" => Len(batches) < MaxFlushes)
               ~> (running[j] = 1)

C12_Witness ==
    /\ last_result["flush"] = "err" /\ LastStatus = "discarded"
    /\ running["flush"] = 1 /\ ipc = "clone_views"
    /\ last_start["flush"] = last_done["flush"] + FlushInterval
    /\ last_result["maxmind"] = "err" /\ running["maxmind"] = 1

\* C13: in the whole system at most one index call is in progress, and it is
\* the call of the one execution of the flush job in progress.
C13_SingleRotation ==
    /\ running["flush"] <= 1
    /\ (ipc # "idle") <=> (running["flush"] = 1)

C13_Witness ==
    /\ InRotation /\ running["flush"] = 1
    /\ \E t \in Threads : task[t].pc = "insert"
    /\ Len(batches) = 1

\* C14: in the first window, with the calls of add one after another, of the
\* n calls made for an entry the first 5 returned true and the others
\* false, and the entry holds n - 1: the first call stored 0 and every later
\* one added 1.
C14_Threshold ==
    rl_resets = 0 => \A c \in clients : WindowLaw(EntryOf(c))

C14_Witness ==
    /\ rl_resets = 0
    /\ \E c \in clients :
          /\ rl_seen[c] = 6 /\ rl_admitted[c] = 5
          /\ rl_queue[EntryOf(c)] = 5

\* C15: index empties the map whatever the counters; in the window that
\* follows, an entry is again absent until its first call, which stores 0
\* and returns true, and again the first 5 calls for it are admitted and the
\* later ones denied.
C15_WindowReset ==
    rl_resets >= 1 =>
        /\ \A k \in DOMAIN rl_queue : \E c \in clients : EntryOf(c) = k /\ rl_seen[c] >= 1
        /\ \A c \in clients : WindowLaw(EntryOf(c))

C15_Witness ==
    /\ rl_resets = 1
    /\ \E c \in clients :
          /\ c \in rl_prev
          /\ rl_seen[c] = 6 /\ rl_admitted[c] = 5

\* C16: of the view requests that one client sends without the admin key for
\* one site path, the buffer is handed at most the first 5: the sixth leaves
\* it unchanged.
C16_SixthDropped ==
    \A p \in SitePaths : served[p] <= 5

\* C17: two requests fall on the same entry only if their site paths are
\* equal, and an add call for one client leaves the entry of every client
\* with another site path or another entry, and the calls counted for it, as
\* they were.
C17_IndependentBuckets ==
    [][\A c \in clients : Returns(c) =>
          \A d \in clients :
              (d.site_path # c.site_path \/ EntryOf(d) # EntryOf(c)) =>
                  /\ EntryOf(d) # EntryOf(c)
                  /\ Has(rl_queue', EntryOf(d)) = Has(rl_queue, EntryOf(d))
                  /\ ValueOf(rl_queue', EntryOf(d)) = ValueOf(rl_queue, EntryOf(d))
                  /\ rl_admitted'[d] = rl_admitted[d]
      ]_vars

C17_Witness ==
    /\ \E c, d \in clients :
          /\ c.ip = d.ip /\ c.site_path # d.site_path
          /\ rl_seen[c] = 6 /\ rl_admitted[c] = 5
          /\ rl_seen[d] = 2 /\ rl_admitted[d] = 2
          /\ rl_queue[EntryOf(d)] = 1

\* C18: two IPv6 addresses with the same first four groups are one entry for
\* a site path and are admitted 5 times together; two that differ in the
\* first four groups, and two distinct IPv4 addresses, are two entries, each
\* admitted 5 times.
Ipv6Pairs == {<<V6A, V6B>>, <<V6A, V6C>>, <<V6B, V6C>>}
SamePrefix(a, b) == SubSeq(a.parts, 1, 4) = SubSeq(b.parts, 1, 4)
ClientOf(ip, p) == [ip |-> ip, site_path |-> p]
C18_Coarsening ==
    \A p \in SitePaths :
        /\ \A pair \in Ipv6Pairs \cup {<<V4A, V4B>>} :
              LET a == ClientOf(pair[1], p)
                  b == ClientOf(pair[2], p)
                  shared == pair \in Ipv6Pairs /\ SamePrefix(pair[1], pair[2])
              IN /\ (EntryOf(a) = EntryOf(b)) <=> shared
                 /\ (rl_resets = 0 /\ clients = {a, b}) =>
                        IF shared
                        THEN AdmittedTo({a, b}) = Min(SeenBy({a, b}), 5)
                        ELSE /\ rl_admitted[a] = Min(rl_seen[a], 5)
                             /\ rl_admitted[b] = Min(rl_seen[b], 5)

C18_Witness ==
    /\ clients = {ClientOf(V6A, "/mod/foo"), ClientOf(V6B, "/mod/foo")}
    /\ rl_seen[ClientOf(V6A, "/mod/foo")] = 3
    /\ rl_seen[ClientOf(V6B, "/mod/foo")] = 3
    /\ AdmittedTo(clients) = 5

\* C19: a call with an ip string that does not parse returns like any other
\* call, and falls on the entry of 127.0.0.1 for its site path: such calls
\* and those of 127.0.0.1 are admitted 5 times together.
Unparsable == {BadOctet, Junk}
C19_FailOpen ==
    \A p \in SitePaths :
        LET pool == {c \in clients : c.site_path = p /\ c.ip \in Unparsable \cup {Loopback}}
        IN /\ \A ip \in Unparsable :
                  EntryOf(ClientOf(ip, p)) = EntryOf(ClientOf(Loopback, p))
           /\ rl_resets = 0 => AdmittedTo(pool) = Min(SeenBy(pool), 5)

C19_Witness ==
    /\ clients = {ClientOf(Junk, "/mod/foo"), ClientOf(Loopback, "/mod/foo")}
    /\ rl_seen[ClientOf(Junk, "/mod/foo")] = 4
    /\ rl_admitted[ClientOf(Junk, "/mod/foo")] = 4
    /\ rl_seen[ClientOf(Loopback, "/mod/foo")] = 2
    /\ rl_admitted[ClientOf(Loopback, "/mod/foo")] = 1


\* The requests of C20: a download request with a url that does not parse
\* or an id outside the base62 numbers of 64 bits, and a view request with a
\* url that does not parse, has no host, or has a host outside the allowed
\* domains.
InvalidDownloads ==
    {[GoodDownload EXCEPT !.url = UrlGarbage],
     [GoodDownload EXCEPT !.project_id = <<"g", "!">>],
     [GoodDownload EXCEPT !.project_id = TwelveZ],
     [GoodDownload EXCEPT !.version_id = <<"?">>]}
InvalidViews ==
    {r \in ViewRequests :
        \/ r.url \in {UrlGarbage, UrlNoHost}
        \/ r.url = UrlEvil /\ "*" \notin allowed_origins}
BufferUnchanged ==
    UNCHANGED <<views_queue, downloads_queue, revenue_queue, task, added, nadds>>

\* C20: a step in which a handler takes an invalid request answers it with
\* 400 and changes neither the maps of the buffer nor any add call.
C20_ValidationNoMutation ==
    [][\/ last_response' = 400 /\ BufferUnchanged
       \/ /\ \A r \in InvalidDownloads : ~downloads_ingest(Worker, r)
          /\ \A r \in InvalidViews, lab \in LabrinthReplies :
                 ~page_view_ingest(Worker, r, lab)
      ]_vars

C20_Witness ==
    /\ last_response = 400
    /\ Cur("views", Foo) = 2 /\ Cur("downloads", Foo) = 1
    /\ added[<<"views", Foo>>] = 2 /\ added[<<"downloads", Foo>>] = 1

\* The view requests whose path names a project, and what the project check
\* comes to when it fails: not sent or not answered (transport error,
\* timeout), a status that is no success, a body that does not decode.
ProjectViews == {r \in ViewRequests : r.url \in {UrlFoo, UrlApp}}
FailedReplies == {lab \in LabrinthReplies : ~lab.sent \/ ~lab.success \/ ~lab.json}
\* The step hands a view with this key to the buffer.
HandsView(key) ==
    /\ nadds' = nadds + 1
    /\ \/ Has(views_queue, key) /\ views_queue' = Increment(views_queue, key, 1)
       \/ task'[Worker] = [pc |-> "insert", kind |-> "views", key |-> key, amt |-> 1]

\* C21: a step in which page_view_ingest takes a request whose project check
\* fails answers 204 and hands the buffer the view with project id 0.
C21_ResolutionDegrades ==
    [][\/ /\ last_response' = NO_CONTENT
          /\ \E p \in SitePaths : HandsView([project_id |-> 0, site_path |-> p])
       \/ \A r \in ProjectViews, lab \in FailedReplies :
              ~page_view_ingest(Worker, r, lab)
      ]_vars

\* The step hands a download with this key to the buffer.
HandsDownload(key) ==
    /\ nadds' = nadds + 1
    /\ \/ Has(downloads_queue, key)
          /\ downloads_queue' = Increment(downloads_queue, key, 1)
       \/ task'[Worker] = [pc |-> "insert", kind |-> "downloads", key |-> key, amt |-> 1]
\* What a Download or PageView holds when the country lookup of its request
\* failed, and when the ip of its request did not parse.
MappedLoopback == <<0, 0, 0, 0, 0, 65535, 32512, 1>>
StoredDegraded(r, src) ==
    /\ ~r.country.some => event'.country = ""
    /\ ~IpParse(src).ok => event'.ip = MappedLoopback
FailedLookup(r, src) == ~r.country.some \/ ~IpParse(src).ok
FailedLookupViews == {r \in EventViews : FailedLookup(r, ViewIpSource(r))}
FailedLookupDownloads ==
    {r \in EventDownloads : r.url.parses /\ FailedLookup(r, r.ip)}

\* C22: a step in which a handler takes a request that passes validation
\* and whose country lookup fails or whose ip does not parse answers 204 and
\* hands the buffer the event, with an empty country in the first case and
\* the IPv6-mapped 127.0.0.1 in the second.
C22_LookupsNeverBlock ==
    [][/\ \A r \in FailedLookupViews, lab \in EventReplies :
              \/ /\ last_response' = NO_CONTENT
                 /\ StoredDegraded(r, ViewIpSource(r))
                 /\ HandsView(PageView(r, lab).key)
              \/ ~page_view_ingest(Worker, r, lab)
       /\ \A r \in FailedLookupDownloads :
              \/ /\ last_response' = NO_CONTENT
                 /\ StoredDegraded(r, r.ip)
                 /\ HandsDownload(Download(r).key)
              \/ ~downloads_ingest(Worker, r)
      ]_vars

C22_Witness ==
    /\ event.country = "" /\ event.ip = MappedLoopback
    /\ Cur("views", Foo) = 1 /\ Cur("downloads", Foo) = 1
    /\ nadds = 2

\* C23: the headers of the event handed last to the buffer hold no name
\* that, in lower case, is one of FILTERED_HEADERS.
C23_HeaderDenyList ==
    \A x \in DOMAIN event.headers : to_lowercase(x) \notin FILTERED_HEADERS

\* C24: a number that went through to_base62 and then parse_base62 comes
\* out, without error, as the number it was.
C24_RoundTrip ==
    b62.pc = "decoded" => b62.result.ok /\ b62.result.num = b62.num

C24_Witness ==
    /\ b62.pc = "decoded" /\ b62.num = U64Max
    /\ b62.string = MaxString
    /\ b62.result.ok /\ b62.result.num = U64Max

\* The characters of a string outside 0-9A-Za-z.
Outside(string) ==
    {string[i] : i \in 1..Len(string)} \ {BASE62_CHARS[i] : i \in 1..62}
\* The digits of a string over the alphabet, its leading zeros dropped.
RECURSIVE Strip(_)
Strip(digits) ==
    IF digits # <<>> /\ Head(digits) = 0 THEN Strip(Tail(digits)) ELSE digits
DigitsOf(string) == Strip([i \in 1..Len(string) |-> Offset(BASE62_CHARS, string[i])])
\* a > b, for two numbers given by their digits
RECURSIVE Greater(_, _)
Greater(a, b) ==
    IF Len(a) # Len(b) THEN Len(a) > Len(b)
    ELSE IF a = <<>> THEN FALSE
    ELSE IF Head(a) # Head(b) THEN Head(a) > Head(b)
    ELSE Greater(Tail(a), Tail(b))

\* C25: parse_base62 of a string with a character outside 0-9A-Za-z fails
\* with InvalidBase62 of such a character of the string; parse_base62 of a
\* string over the alphabet whose value is above u64::MAX fails with Overflow.
C25_DecodeErrors ==
    b62.pc = "parsed" =>
        /\ Outside(b62.string) # {} =>
              /\ ~b62.result.ok /\ b62.result.err = "InvalidBase62"
              /\ b62.result.char \in Outside(b62.string)
        /\ (Outside(b62.string) = {}
              /\ Greater(DigitsOf(b62.string), DigitsOf(MaxString))) =>
              ~b62.result.ok /\ b62.result.err = "Overflow"

\* The width of a bucket, in minutes: of a resolution by its name, and of
\* the interval string handed to the database (a month taken as 30 days).
Minutes(resolution) ==
    CASE resolution = "FiveMinutes" -> 5
      [] resolution = "FifteenMinutes" -> 15
      [] resolution = "OneHour" -> 60
      [] resolution = "SixHours" -> 360
      [] resolution = "TwelveHours" -> 720
      [] resolution = "OneDay" -> 1440
      [] resolution = "OneWeek" -> 10080
      [] resolution = "OneMonth" -> 43200
PostgresMinutes(text) ==
    CASE text = "1 minute" -> 1
      [] text = "15 minutes" -> 15
      [] text = "1 hour" -> 60
      [] text = "6 hours" -> 360
      [] text = "12 hours" -> 720
      [] text = "1 day" -> 1440
      [] text = "1 week" -> 10080
      [] text = "1 month" -> 43200
\* The minimum for an interval: more than 2 years weekly, more than 90 days
\* daily, more than 30 days hourly, more than 7 days 15 minutes, else 5.
MinimumFor(interval) ==
    IF interval > 730 * Day THEN 10080
    ELSE IF interval > 90 * Day THEN 1440
    ELSE IF interval > 30 * Day THEN 60
    ELSE IF interval > 7 * Day THEN 15
    ELSE 5

\* C26: the bucket width a query is given is never finer than the minimum
\* for its interval, is the requested one when that is at least as coarse as
\* the minimum, and is the minimum when none is requested.
C26_ResolutionClamp ==
    (check.pc = "returned" /\ check.result.ok) =>
        LET width == PostgresMinutes(check.result.value)
            min == MinimumFor(check.args.interval)
            requested == check.args.resolution
        IN /\ width >= min
           /\ (requested.some /\ Minutes(requested.val) >= min) =>
                  width = Minutes(requested.val)
           /\ ~requested.some => width = min

\* C27: a user that is no admin is authorized only with a project id and a
\* member of the project's team that has the user's id, is accepted and
\* holds the bit asked for; an admin is authorized without the project; no
\* Authorization header, or a call to labrinth that fails, gives an error.
HoldsBit(x, bit) == (x.permissions \div bit) % 2 = 1
C27_Authorization ==
    check.pc \in {"authorized", "returned"} =>
        LET a == check.args
            admin == a.user_reply.ok /\ a.user_reply.user.role = "admin"
            asked == IF a.use_payouts_permission THEN 512 ELSE 256
        IN /\ (check.auth.ok /\ ~admin) =>
                  /\ a.project_id.some
                  /\ \E i \in 1..Len(a.members_reply.members) :
                        LET x == a.members_reply.members[i]
                        IN x.user_id = a.user_reply.user.id /\ x.accepted
                             /\ HoldsBit(x, asked)
           /\ (a.token = "valid" /\ admin) => check.auth.ok
           /\ (a.token = "absent" \/ ~a.user_reply.ok) => ~check.auth.ok
           /\ (a.token = "valid" /\ a.user_reply.ok /\ ~admin /\ a.project_id.some
                 /\ ~a.members_reply.ok) => ~check.auth.ok

C27_Witness ==
    /\ check.pc = "returned" /\ check.auth.ok /\ check.result.ok
    /\ check.args.user_reply.user.role = "developer"
    /\ check.args.use_payouts_permission
    /\ check.args.members_reply.members =
          <<Stranger, [user_id |-> "u1", accepted |-> TRUE, permissions |-> 768]>>

\* C28: in a window with no reset, whatever the interleaving of the add
\* calls, at most 5 of the calls for one entry have returned true.
C28_AtMostFiveConcurrent ==
    rl_resets = 0 =>
        \A c \in clients : KeyAdmitted(EntryOf(c)) <= 5

\* C29: a step that is no reset removes no entry and lowers no counter: it
\* inserts one entry at 0 or raises one counter by exactly 1; a reset removes
\* every entry.
C29_EntryLifecycle ==
    [][IF rl_resets' # rl_resets THEN rl_queue' = EmptyMap
       ELSE \/ rl_queue' = rl_queue
            \/ \E key \in DOMAIN rl_queue' :
                  /\ \A other \in DOMAIN rl_queue \ {key} :
                        Has(rl_queue', other) /\ rl_queue'[other] = rl_queue[other]
                  /\ DOMAIN rl_queue' = DOMAIN rl_queue \cup {key}
                  /\ rl_queue'[key] = IF Has(rl_queue, key) THEN rl_queue[key] + 1 ELSE 0
      ]_vars

\* The buffer has no entry of any kind; the clones of index have none.
BufferEmpty ==
    views_queue = EmptyMap /\ downloads_queue = EmptyMap /\ revenue_queue = EmptyMap
BatchEmpty == \A kind \in Kinds : LocalOf(local, kind) = EmptyMap
Untouched == UNCHANGED <<sink, tx, views_queue, downloads_queue, revenue_queue>>

\* C30: every step of an index call that has found nothing in the buffer
\* leaves the buffer and its clones empty and the transaction and the sink
\* as they were; at its emptiness test a call with empty clones goes to its
\* return of Ok(()) without beginning a transaction.
C30_EmptyFlush ==
    [][ipc' # ipc =>
          /\ (ipc # "idle" /\ BufferEmpty /\ BatchEmpty) =>
                /\ BufferEmpty' /\ BatchEmpty' /\ Untouched
                /\ ipc' \notin {"insert", "err"}
          /\ (ipc = "check" /\ BatchEmpty) =>
                /\ ipc' = "ok" /\ Untouched
                /\ batches' = Append(batches, [maps |-> NoLocal, status |-> "empty"])
      ]_vars

C30_Witness ==
    /\ ipc = "ok" /\ Len(batches) = 2
    /\ batches[1].status = "committed" /\ batches[2].status = "empty"
    /\ BufferEmpty /\ sink # {}
    /\ \A r \in sink : r.batch = 1

\* The clear of a map is still to come: the index call in progress has not
\* run it yet, or the flush job is asleep and its next execution begins
\* within the behaviour followed.
Position(pc) == CHOOSE j \in 1..Len(IndexOrder) : IndexOrder[j] = pc
ClearAhead(kind) ==
    \/ /\ InRotation
       /\ \E i \in Position(ipc)..Len(IndexOrder) : IndexOrder[i] = "clear_" \o kind
    \/ /\ ipc = "idle" /\ running["flush"] = 0
       /\ Len(batches) < MaxFlushes /\ wake["flush"] <= Horizon
\* A batch holds the key: the clones of the index call in progress, or a batch
\* that was committed or discarded.
InBatch(kind, k) ==
    \/ Has(LocalOf(local, kind), k)
    \/ \E i \in 1..Len(batches) :
          /\ Has(LocalOf(batches[i].maps, kind), k)
          /\ batches[i].status \in {"committed", "discarded"}

PendingRemoved ==
    \A kind \in CounterKinds : \A k \in KeysOf(kind) :
        (Has(Queue(kind), k) /\ ClearAhead(kind)) ~> ~Has(Queue(kind), k)
\* The same as C31 for the counters that are in the buffer when the rotation
\* begins.
PendingAtStartFlushed ==
    \A kind \in CounterKinds : \A k \in KeysOf(kind) :
        (Has(Queue(kind), k) /\ ClearAhead(kind) /\ ipc = "idle")
            ~> (~Has(Queue(kind), k) /\ InBatch(kind, k))

\* An add call for the target x completes in this step.
AddCompletes(x) == added'[x] # added[x]
\* The step leaves the entry of key k in the map of a kind as it was.
EntryKept(kind, k) ==
    /\ Has(Queue(kind)', k) <=> Has(Queue(kind), k)
    /\ ValueOf(Queue(kind)', k) = ValueOf(Queue(kind), k)
\* The step leaves every entry but the one of the target x as it was; two
\* keys are one entry only when project_id and site_path are both equal.
OthersKept(x) ==
    \A y \in Targets :
        (y[1] # x[1] \/ y[2].project_id # x[2].project_id
           \/ (y[1] \in CounterKinds /\ y[2].site_path # x[2].site_path))
            => EntryKept(y[1], y[2])
\* The step inserts the entry of x with 1 or raises it by exactly 1.
InsertedOrRaised(x) ==
    /\ Has(Queue(x[1])', x[2])
    /\ Queue(x[1])'[x[2]] = IF Has(Queue(x[1]), x[2]) THEN Queue(x[1])[x[2]] + 1 ELSE 1

\* C32: an add of a view or a download for a key changes only that key's
\* entry in the map of its kind, inserting it with 1 or raising it by exactly
\* 1, and leaves every other key of that map and every entry of the other
\* maps as they were; keys are equal exactly when project_id and site_path
\* are both equal.
C32_FrameOfAdd ==
    [][\A x \in Targets :
          (x[1] \in CounterKinds /\ AddCompletes(x)) =>
              InsertedOrRaised(x) /\ OthersKept(x)
      ]_vars

\* The frame alone, for the adds of every kind.
AddFrame == [][\A x \in Targets : AddCompletes(x) => OthersKept(x)]_vars

====
